---- MODULE Spec2Model ----
(***************************************************************************)
(* Model of the task-progress poller of MultiModalDocSystem                *)
(* (ProgressStatus component, src/unnamed/part_002, script lines 577-816).  *)
(*                                                                         *)
(* The component runs on one event loop.  Every action below is one        *)
(* uninterrupted run of a handler: a watcher callback pair, a button       *)
(* click, the continuation of `await getProcessStatus(...)` (response or   *)
(* rejection), a window timer callback, or the unmount hook.               *)
(*                                                                         *)
(* Handlers are written as operators from a poller state record to the     *)
(* next one, so that a handler that calls another (the watcher calling     *)
(* initPolling calling startPolling calling poll) is their composition.    *)
(***************************************************************************)
EXTENDS Integers, Sequences, FiniteSets

\* ---------------------------------------------------------------- bounds
MaxFetches == 3     \* status requests issued in one behaviour
MaxTimers  == 2     \* window.setTimeout calls in one behaviour
MaxChanges == 2     \* changes of the taskId prop in one behaviour
MaxClock   == 2     \* values of Date.now() that are told apart
MaxSegs    == 3     \* segments in the working collection
MaxEdSteps == 4     \* user and application events in one behaviour

JobIds == {"a", "b"}          \* non-empty job ids the application supplies
NoJob  == ""                  \* the default of props.taskId

\* status.status values that the poll loop tells apart: completed, failed,
\* anything else
PollStatuses == {"processing_ocr", "completed", "failed"}

VARIABLES
    taskId,        \* props.taskId
    autoPoll,      \* props.autoPoll
    mounted,       \* FALSE once the component is unmounted
    statusInfo,    \* ref statusInfo (null: NullStatus)
    errorMessage,  \* ref errorMessage
    isPolling,     \* ref isPolling
    pollTimer,     \* ref pollTimer: NullTimer or a timer handle
    startTime,     \* ref startTime
    timers,        \* pending window timers whose callback is poll
    inflight,      \* getProcessStatus requests not yet settled
    nTimer,        \* handles handed out by window.setTimeout so far
    nFetch,        \* requests issued so far
    nChanges,      \* changes of props.taskId so far
    now,           \* Date.now()
    emitted,       \* events emitted by the handler that ran last
    session,       \* history: number of accepted startPolling calls
    everHalted,    \* history: stopPolling ran after some startPolling was accepted
    begun,         \* history: job ids startPolling was called for since the last stopPolling
    nCompleted,    \* history: task-completed events since the last accepted startPolling
    nFailed,       \* history: task-failed events since the last accepted startPolling
    last           \* history: the handler that ran last

\* State of the segment editor (RAGResultEditor, src/unnamed/part_000) and of
\* the application that embeds it (FileUpload.vue, script from line 439).
VARIABLES
    editedSegments,    \* ref editedSegments: the working collection
    editingSegmentId,  \* ref editingSegmentId (NoId: '')
    isProcessing,      \* ref isProcessing
    ragContent,        \* props.ragContent
    ragSegments,       \* the application's ref ragSegments, bound to props.segments
    shared,            \* editedSegments and ragSegments are one and the same array object
    ragPending,        \* processRAG requests not yet settled
    resetTimers,       \* pending timers that clear isProcessing
    edEmitted,         \* events emitted by the editor handler that ran last
    edPrev,            \* history: the working collection before that handler ran
    edLast,            \* history: the editor handler that ran last
    deletedIds,        \* history: ids removed by deleteSegment so far
    edSteps,           \* history: user and application events so far
    editedWhilePending,\* history: the user changed the collection while the last request was outstanding
    lastHandoff        \* history: how the application last came to hold its array

\* State of the upload list (FileUpload.vue, script from line 54).
VARIABLES
    files,                \* ref files: the upload list
    isSubmittingInternal, \* ref isSubmittingInternal
    autoUpload,           \* props.autoUpload
    uploads,              \* uploadFiles requests not yet settled
    nGenerated,           \* ids handed out by generateId so far
    upEmitted,            \* events emitted by the upload handler that ran last
    upLast,               \* history: the upload handler that ran last
    upSteps               \* history: user and application events so far

pollerVars == <<taskId, autoPoll, mounted, statusInfo, errorMessage, isPolling,
                pollTimer, startTime, timers, inflight, nTimer, nFetch, nChanges,
                emitted, session, everHalted, begun, nCompleted, nFailed, last>>

edVars == <<editedSegments, editingSegmentId, isProcessing, ragContent,
            ragSegments, shared, ragPending, resetTimers, edEmitted, edPrev,
            edLast, deletedIds, edSteps, editedWhilePending, lastHandoff>>

upVars == <<files, isSubmittingInternal, autoUpload, uploads, nGenerated,
            upEmitted, upLast, upSteps>>

vars == <<taskId, autoPoll, mounted, statusInfo, errorMessage, isPolling,
          pollTimer, startTime, timers, inflight, nTimer, nFetch, nChanges,
          now, emitted, session, everHalted, begun, nCompleted, nFailed, last,
          editedSegments, editingSegmentId, isProcessing, ragContent,
          ragSegments, shared, ragPending, resetTimers, edEmitted, edPrev,
          edLast, deletedIds, edSteps, editedWhilePending, lastHandoff,
          files, isSubmittingInternal, autoUpload, uploads, nGenerated,
          upEmitted, upLast, upSteps>>

\* ------------------------------------------------------- segment data shapes
\* Segment ids are strings; the three ways they are formed stay apart:
\* an id sent by the backend, `segment-${Date.now()}`, `rag-${Date.now()}-${index}`.
NoId == <<"", 0, 0>>
BackendId(k) == <<"id", k, 0>>
SegmentId(t) == <<"segment", t, 0>>
RagId(t, index) == <<"rag", t, index>>

\* Text is a sequence of characters.
Chars(n) == [i \in 1..n |-> "c"]

Segment(id, fileId, content, chunkIndex, confidence) ==
    [id |-> id, fileId |-> fileId, content |-> content,
     chunkIndex |-> chunkIndex, confidence |-> confidence]

\* The editor before any input: no segments, no source text, nothing running.
EditorIdle ==
    /\ editedSegments = <<>>
    /\ editingSegmentId = NoId
    /\ isProcessing = FALSE
    /\ ragContent = ""
    /\ ragSegments = <<>>
    /\ shared = FALSE
    /\ ragPending = 0
    /\ resetTimers = 0
    /\ edEmitted = <<>>
    /\ edPrev = <<>>
    /\ edLast = [op |-> "setup", id |-> NoId, sel |-> {}, content |-> <<>>,
                 response |-> <<>>]
    /\ deletedIds = {}
    /\ edSteps = 0
    /\ editedWhilePending = FALSE
    /\ lastHandoff = "prop"

\* The upload list before any input: no file chosen, nothing being sent.
UpOp(name) == [op |-> name, id |-> <<"", 0>>, before |-> <<>>]

UploadIdle ==
    /\ files = <<>>
    /\ isSubmittingInternal = FALSE
    /\ autoUpload = FALSE
    /\ uploads = <<>>
    /\ nGenerated = 0
    /\ upEmitted = <<>>
    /\ upLast = UpOp("setup")
    /\ upSteps = 0

\* ------------------------------------------------------------ data shapes
NullTimer  == 0
undefined  == -1
NullStatus ==
    [task_id |-> "", status |-> "null", progress |-> undefined,
     message |-> "", error |-> ""]

\* A status payload.  message and error are "" when the payload lacks them;
\* start_time and end_time are read where message is read, in the template
\* only, and are not kept apart from it.
ProcessStatus(job, st) ==
    [task_id |-> job, status |-> st, progress |-> undefined,
     message |-> "", error |-> ""]

Event(name, payload) == [e |-> name, task_id |-> payload.task_id, status |-> payload.status]

EventNames(evs) == [i \in DOMAIN evs |-> evs[i].e]

\* `before` is the status that was stored when a response arrived.
Op(name, job, sess, st) ==
    [op |-> name, job |-> job, sess |-> sess, status |-> st, before |-> ""]

\* The poller state as one record.
Cur ==
    [taskId |-> taskId, autoPoll |-> autoPoll, mounted |-> mounted,
     statusInfo |-> statusInfo, errorMessage |-> errorMessage,
     isPolling |-> isPolling, pollTimer |-> pollTimer, startTime |-> startTime,
     timers |-> timers, inflight |-> inflight, nTimer |-> nTimer,
     nFetch |-> nFetch, now |-> now, emitted |-> <<>>, session |-> session,
     everHalted |-> everHalted, begun |-> begun, nCompleted |-> nCompleted,
     nFailed |-> nFailed]

\* State of the refs as declared, before any watcher has run.
Blank(id, ap) ==
    [taskId |-> id, autoPoll |-> ap, mounted |-> TRUE,
     statusInfo |-> NullStatus, errorMessage |-> "",
     isPolling |-> FALSE, pollTimer |-> NullTimer, startTime |-> 0,
     timers |-> {}, inflight |-> {}, nTimer |-> 0,
     nFetch |-> 0, now |-> 1, emitted |-> <<>>, session |-> 0,
     everHalted |-> FALSE, begun |-> <<>>, nCompleted |-> 0,
     nFailed |-> 0]

\* ---------------------------------------------------------------- helpers
\* emit(...): Vue drops events of an unmounted component instance.
emit(s, name, payload) ==
    IF s.mounted THEN [s EXCEPT !.emitted = Append(@, Event(name, payload))] ELSE s

\* clearTimeout(handle): cancels the timer if it is still pending.
clearTimeout(s, handle) ==
    [s EXCEPT !.timers = {t \in @ : t.id # handle}]

\* window.setTimeout(poll, props.pollInterval) assigned to pollTimer.
\* `chain` is the startPolling call the poll closure belongs to (history).
setTimeout(s, chain) ==
    [s EXCEPT !.nTimer = @ + 1,
              !.timers = @ \cup {[id |-> s.nTimer + 1, sess |-> chain]},
              !.pollTimer = s.nTimer + 1]

\* getProcessStatus(props.taskId): the request is issued for the job id the
\* prop holds when poll runs.
getProcessStatus(s, chain) ==
    [s EXCEPT !.nFetch = @ + 1,
              !.inflight = @ \cup {[n |-> s.nFetch + 1, job |-> s.taskId, sess |-> chain]}]

\* ------------------------------------------------------------- stopPolling
stopPolling(s) ==
    LET s1 == [s EXCEPT !.isPolling = FALSE]
        s2 == IF s1.pollTimer # NullTimer
              THEN [clearTimeout(s1, s1.pollTimer) EXCEPT !.pollTimer = NullTimer]
              ELSE s1
        s3 == [s2 EXCEPT !.everHalted = (@ \/ s.session > 0), !.begun = <<>>]
    IN  emit(s3, "polling-stop", NullStatus)

\* ------------------------------------------------------------ startPolling
\* The synchronous part of poll: up to the await.
poll(s, chain) == getProcessStatus(s, chain)

NoteBegin(b, id) == IF b # <<>> /\ b[Len(b)] = id THEN b ELSE Append(b, id)

\* startPolling whose guard forgets the isPolling test.
startPolling_noPollingGuard(s) ==
    IF s.taskId = NoJob
    THEN s
    ELSE LET s1 == [s EXCEPT !.isPolling = TRUE,
                             !.errorMessage = "",
                             !.startTime = s.now,
                             !.session = @ + 1,
                             !.nCompleted = 0,
                             !.nFailed = 0,
                             !.begun = NoteBegin(@, s.taskId)]
             s2 == emit(s1, "polling-start", NullStatus)
         IN  poll(s2, s1.session)

\* startPolling that forgets to reset startTime.
startPolling_keepsStartTime(s) ==
    IF s.taskId = NoJob \/ s.isPolling
    THEN [s EXCEPT !.begun = IF s.taskId = NoJob THEN @ ELSE NoteBegin(@, s.taskId)]
    ELSE LET s1 == [s EXCEPT !.isPolling = TRUE,
                             !.errorMessage = "",
                             !.session = @ + 1,
                             !.nCompleted = 0,
                             !.nFailed = 0,
                             !.begun = NoteBegin(@, s.taskId)]
             s2 == emit(s1, "polling-start", NullStatus)
         IN  poll(s2, s1.session)

startPolling(s) ==
    IF s.taskId = NoJob \/ s.isPolling
    THEN [s EXCEPT !.begun = IF s.taskId = NoJob THEN @ ELSE NoteBegin(@, s.taskId)]
    ELSE LET s1 == [s EXCEPT !.isPolling = TRUE,
                             !.errorMessage = "",
                             !.startTime = s.now,
                             !.session = @ + 1,
                             !.nCompleted = 0,
                             !.nFailed = 0,
                             !.begun = NoteBegin(@, s.taskId)]
             s2 == emit(s1, "polling-start", NullStatus)
         IN  poll(s2, s1.session)

initPolling(s) ==
    IF s.taskId # NoJob /\ s.autoPoll THEN startPolling(s) ELSE s

\* The continuation of poll after the await resolved with `status`,
\* for the request f.
\* A poll that takes a payload with an error text for a failed job.
pollResolvedWith_stopsOnError(s, f, status) ==
    LET s1 == [s EXCEPT !.statusInfo = status]
        s2 == emit(s1, "status-update", status)
    IN  IF status.status = "completed"
        THEN LET s3 == stopPolling(s2)
                 s4 == emit(s3, "task-completed", status)
             IN  [s4 EXCEPT !.nCompleted = IF s4.mounted THEN @ + 1 ELSE @]
        ELSE IF status.status = "failed" \/ status.error # ""
        THEN LET s3 == stopPolling(s2)
                 s4 == emit(s3, "task-failed", status)
             IN  [s4 EXCEPT !.nFailed = IF s4.mounted THEN @ + 1 ELSE @]
        ELSE IF s2.isPolling
        THEN setTimeout(s2, f.sess)
        ELSE s2

pollResolvedWith(s, f, status) ==
    LET s1 == [s EXCEPT !.statusInfo = status]
        s2 == emit(s1, "status-update", status)
    IN  IF status.status = "completed"
        THEN LET s3 == stopPolling(s2)
                 s4 == emit(s3, "task-completed", status)
             IN  [s4 EXCEPT !.nCompleted = IF s4.mounted THEN @ + 1 ELSE @]
        ELSE IF status.status = "failed"
        THEN LET s3 == stopPolling(s2)
                 s4 == emit(s3, "task-failed", status)
             IN  [s4 EXCEPT !.nFailed = IF s4.mounted THEN @ + 1 ELSE @]
        ELSE IF s2.isPolling
        THEN setTimeout(s2, f.sess)
        ELSE s2

\* The same for a payload without a progress value.
pollResolved(s, f, st) == pollResolvedWith(s, f, ProcessStatus(f.job, st))

\* The catch block of poll: the await rejected.
pollRejected(s) ==
    stopPolling([s EXCEPT !.errorMessage = "error"])

\* The await resolved with a body that is not an object (null): the
\* assignment and the status-update run, then `status.status` throws inside
\* the try and the catch block runs.
pollMalformed(s) ==
    LET s1 == [s EXCEPT !.statusInfo = NullStatus]
        s2 == emit(s1, "status-update", NullStatus)
    IN  pollRejected(s2)

\* ---------------------------------------------------------------- watchers
\* Callback of either watch(() => props.taskId, ...).
watchTaskId(s) ==
    IF s.taskId # NoJob
    THEN initPolling(s)
    ELSE [stopPolling(s) EXCEPT !.statusInfo = NullStatus]

\* The first watcher is created (immediate: true) before `const initPolling`
\* is initialised: with a non-empty id its immediate run throws a
\* ReferenceError before it touches any ref.  Vue's watcher error handling
\* either reports it and setup goes on (modelled here) or rethrows it, in
\* which case the component is never constructed and has no state.  With an
\* empty id the callback runs its else branch.
watchTaskIdImmediateFirst(s) ==
    IF s.taskId # NoJob THEN s ELSE watchTaskId(s)

setup(id, ap) == watchTaskId(watchTaskIdImmediateFirst(Blank(id, ap)))

\* ------------------------------------------------------------------ commit
Commit(r, l) ==
    /\ r.nFetch <= MaxFetches
    /\ r.nTimer <= MaxTimers
    /\ taskId' = r.taskId
    /\ autoPoll' = r.autoPoll
    /\ mounted' = r.mounted
    /\ statusInfo' = r.statusInfo
    /\ errorMessage' = r.errorMessage
    /\ isPolling' = r.isPolling
    /\ pollTimer' = r.pollTimer
    /\ startTime' = r.startTime
    /\ timers' = r.timers
    /\ inflight' = r.inflight
    /\ nTimer' = r.nTimer
    /\ nFetch' = r.nFetch
    /\ now' = r.now
    /\ emitted' = r.emitted
    /\ session' = r.session
    /\ everHalted' = r.everHalted
    /\ begun' = r.begun
    /\ nCompleted' = r.nCompleted
    /\ nFailed' = r.nFailed
    /\ last' = l
    /\ UNCHANGED edVars
    /\ UNCHANGED upVars

Init ==
    \E id \in JobIds \cup {NoJob}, ap \in BOOLEAN :
        LET r == setup(id, ap) IN
        /\ taskId = r.taskId
        /\ autoPoll = r.autoPoll
        /\ mounted = r.mounted
        /\ statusInfo = r.statusInfo
        /\ errorMessage = r.errorMessage
        /\ isPolling = r.isPolling
        /\ pollTimer = r.pollTimer
        /\ startTime = r.startTime
        /\ timers = r.timers
        /\ inflight = r.inflight
        /\ nTimer = r.nTimer
        /\ nFetch = r.nFetch
        /\ nChanges = 0
        /\ now = r.now
        /\ emitted = r.emitted
        /\ session = r.session
        /\ everHalted = r.everHalted
        /\ begun = r.begun
        /\ nCompleted = r.nCompleted
        /\ nFailed = r.nFailed
        /\ last = Op("setup", id, 0, "")
        /\ EditorIdle
        /\ UploadIdle

\* ----------------------------------------------------------------- actions
\* The application changes the taskId prop: both watchers run, in the order
\* they were created.
SetTaskId(id) ==
    /\ mounted
    /\ id # taskId
    /\ nChanges < MaxChanges
    /\ nChanges' = nChanges + 1
    /\ Commit(watchTaskId(watchTaskId([Cur EXCEPT !.taskId = id])),
              Op("watch", id, session, ""))

\* The refresh button (disabled while polling or without a job id).
ClickRefresh ==
    /\ mounted
    /\ ~isPolling /\ taskId # NoJob
    /\ Commit(startPolling(Cur), Op("refresh", taskId, session, ""))
    /\ UNCHANGED nChanges

\* The stop button (rendered only while polling).
ClickStop ==
    /\ mounted
    /\ isPolling
    /\ Commit(stopPolling(Cur), Op("stop", taskId, session, ""))
    /\ UNCHANGED nChanges

\* A status request resolves.
Respond(f, st) ==
    /\ f \in inflight
    /\ Commit(pollResolved([Cur EXCEPT !.inflight = @ \ {f}], f, st),
              Op("response", f.job, f.sess, st))
    /\ UNCHANGED nChanges

\* A status request resolves with a body that is not a status object.
RespondMalformed(f) ==
    /\ f \in inflight
    /\ Commit(pollMalformed([Cur EXCEPT !.inflight = @ \ {f}]),
              Op("malformed", f.job, f.sess, ""))
    /\ UNCHANGED nChanges

\* A status request rejects (network failure, non-2xx answer).
FetchFail(f) ==
    /\ f \in inflight
    /\ Commit(pollRejected([Cur EXCEPT !.inflight = @ \ {f}]),
              Op("reject", f.job, f.sess, ""))
    /\ UNCHANGED nChanges

\* A pending timer fires and runs poll.
TimerFire(t) ==
    /\ t \in timers
    /\ Commit(poll([Cur EXCEPT !.timers = @ \ {t}], t.sess),
              Op("timer", taskId, t.sess, ""))
    /\ UNCHANGED nChanges

\* onUnmounted hook.
Unmount ==
    /\ mounted
    /\ Commit([stopPolling(Cur) EXCEPT !.mounted = FALSE],
              Op("unmount", taskId, session, ""))
    /\ UNCHANGED nChanges

\* Date.now() advances.
Tick ==
    /\ now < MaxClock
    /\ Commit([Cur EXCEPT !.now = @ + 1], Op("tick", taskId, session, ""))
    /\ UNCHANGED nChanges

Next ==
    \/ \E id \in JobIds \cup {NoJob} : SetTaskId(id)
    \/ ClickRefresh
    \/ ClickStop
    \/ \E f \in inflight, st \in PollStatuses : Respond(f, st)
    \/ \E f \in inflight : RespondMalformed(f)
    \/ \E f \in inflight : FetchFail(f)
    \/ \E t \in timers : TimerFire(t)
    \/ Unmount
    \/ Tick

Spec == Init /\ [][Next]_vars

TypeOK ==
    /\ taskId \in JobIds \cup {NoJob}
    /\ isPolling \in BOOLEAN
    /\ pollTimer \in 0..MaxTimers
    /\ Cardinality(timers) <= MaxTimers
    /\ Cardinality(inflight) <= MaxFetches

\* ------------------------------------------------------------------ claims
\* The session a request or timer belongs to is over once stopPolling ran
\* after it began: it is no longer the accepted startPolling call that is
\* still polling.
SessionHalted(k) == ~(isPolling /\ session = k)

Names(evs) == {evs[i].e : i \in DOMAIN evs}

CountOf(evs, name) == Cardinality({i \in DOMAIN evs : evs[i].e = name})

\* C1: a status response that arrives after its session was halted is
\* discarded: the stored status does not change and no event is emitted.
C1_StaleResponseDiscarded ==
    [][(last'.op = "response" /\ SessionHalted(last'.sess))
         => (statusInfo' = statusInfo /\ emitted' = <<>>)]_vars

\* C2: once the supplied job id has switched, a response to a request that
\* was issued for the previous job id neither changes the stored status nor
\* emits a status-update event.
C2_NoUpdateFromOldJob ==
    [][(last'.op = "response" /\ last'.job # taskId)
         => (statusInfo' = statusInfo /\ "status-update" \notin Names(emitted'))]_vars

\* C3: in every reachable state at most one re-poll timer is pending.
C3_AtMostOneTimerPending == Cardinality(timers) <= 1

\* C4: as long as stopPolling has not run since the first accepted
\* startPolling, whatever job ids startPolling is called for, at most one
\* re-poll timer is pending.
C4_OneTimerWithoutHalt == ~everHalted => Cardinality(timers) <= 1

\* C4 witness: startPolling was called for a, b, a with no halt, a timer has
\* already fired and the next one is pending.
C4_Witness ==
    /\ ~everHalted
    /\ begun = <<"a", "b", "a">>
    /\ nTimer = 2
    /\ Cardinality(timers) = 1

\* C5: when the supplied job id changes from one non-empty id to another
\* while a session is active, the poller halts the old session (timer
\* cancelled, stop event) and then begins a new one (start event, startTime
\* reset, a request for the new id issued at once).
C5_JobSwitchHaltsThenBegins ==
    [][(last'.op = "watch" /\ autoPoll /\ isPolling
          /\ taskId \in JobIds /\ taskId' \in JobIds)
         => (/\ EventNames(emitted') = <<"polling-stop", "polling-start">>
             /\ startTime' = now
             /\ timers' = {}
             /\ \E f \in inflight' \ inflight : f.job = taskId')]_vars

\* C6: applying a completed response emits status-update, then halts, then
\* emits task-completed; a session sees exactly one task-completed event,
\* and after it no timer is scheduled and no request is issued.
C6_CompletedOnceAndFinal ==
    [][/\ (last'.op = "response" /\ last'.status = "completed" /\ mounted)
            => EventNames(emitted') = <<"status-update", "polling-stop", "task-completed">>
       /\ (nCompleted >= 1 /\ session' = session)
            => (/\ nCompleted' = nCompleted
                /\ timers' \subseteq timers
                /\ inflight' \subseteq inflight)]_vars

\* C7: when a status request fails the poller records a non-empty error
\* message, halts, leaves no timer pending, issues no further request and
\* emits neither task-completed nor task-failed.
C7_FetchFailureIsTerminal ==
    [][/\ last'.op = "reject"
            => (/\ errorMessage' # ""
                /\ ~isPolling'
                /\ timers' = {}
                /\ Names(emitted') \cap {"task-completed", "task-failed"} = {})
       /\ (errorMessage # "" /\ session' = session)
            => inflight' \subseteq inflight]_vars

\* C8: applying a failed response halts the session, emits exactly one
\* task-failed event, records no error message and leaves no poll
\* scheduled; a failing request never emits task-failed.
C8_FailedStatusIsTerminal ==
    [][/\ (last'.op = "response" /\ last'.status = "failed" /\ mounted)
            => (/\ ~isPolling'
                /\ CountOf(emitted', "task-failed") = 1
                /\ errorMessage' = errorMessage
                /\ timers' = {})
       /\ (nFailed >= 1 /\ session' = session)
            => (/\ nFailed' = nFailed
                /\ timers' \subseteq timers
                /\ inflight' \subseteq inflight)
       /\ last'.op \in {"reject", "malformed"}
            => "task-failed" \notin Names(emitted')]_vars

\* C9: a halt of an active session (stop button, unmount) leaves the poller
\* not polling with no timer pending and emits exactly one stop event.
C9_HaltCancelsTimer ==
    [][(last'.op \in {"stop", "unmount"} /\ isPolling)
         => (/\ ~isPolling'
             /\ pollTimer' = NullTimer
             /\ timers' = {}
             /\ EventNames(emitted') = <<"polling-stop">>)]_vars

\* C10: a halt with no active session (unmount of an idle poller, the job id
\* becoming empty on an idle poller) emits no event, changes no state and
\* leaves no timer pending.
C10_IdleHaltIsNoOp ==
    [][((last'.op = "unmount" \/ (last'.op = "watch" /\ taskId' = NoJob)) /\ ~isPolling)
         => (/\ emitted' = <<>>
             /\ UNCHANGED <<isPolling, pollTimer, errorMessage, startTime, timers>>
             /\ timers' = {})]_vars

\* startPolling applied to the state s changes nothing that can be observed.
BeginIsNoOp(s) ==
    LET r == startPolling(s) IN
    /\ r.emitted = s.emitted
    /\ r.inflight = s.inflight
    /\ r.nFetch = s.nFetch
    /\ r.startTime = s.startTime
    /\ r.errorMessage = s.errorMessage
    /\ r.pollTimer = s.pollTimer
    /\ r.timers = s.timers
    /\ r.isPolling = s.isPolling
    /\ r.session = s.session

\* C11: startPolling with an empty job id, or while a session is active, is
\* a no-op: no start event, no request, startTime, errorMessage and timer
\* unchanged.  In particular, when the job id changes on an idle poller the
\* call of the second watcher, made right after the first one began the
\* session for the same id, adds no second start event or request.
C11_RejectedBeginIsNoOp ==
    /\ []((taskId = NoJob \/ isPolling) => BeginIsNoOp(Cur))
    /\ [][(last'.op = "watch" /\ taskId' # NoJob /\ ~isPolling)
            => (/\ CountOf(emitted', "polling-start") <= 1
                /\ nFetch' <= nFetch + 1)]_vars

\* C11 witness: both watchers ran startPolling for the new id; the session
\* is active and only one start event was emitted.
C11_Witness ==
    /\ last.op = "watch"
    /\ autoPoll /\ taskId # NoJob /\ isPolling
    /\ EventNames(emitted) = <<"polling-start">>
    /\ Cardinality({f \in inflight : f.sess = session}) = 1

\* C12: an accepted startPolling marks the session active, resets startTime
\* to the current time, clears the error message, emits exactly one start
\* event and issues the first request for the current job id in the same
\* step, with no timer of the new session scheduled.
C12_AcceptedBeginFetchesAtOnce ==
    [][(session' = session + 1)
         => (/\ isPolling'
             /\ startTime' = now
             /\ errorMessage' = ""
             /\ CountOf(emitted', "polling-start") = 1
             /\ \E f \in inflight' \ inflight : f.job = taskId' /\ f.sess = session'
             /\ timers' \subseteq timers
             /\ {t \in timers' : t.sess = session'} = {})]_vars

\* C12 witness: a second session was begun with the refresh button after the
\* clock advanced; startTime shows the new time.
C12_Witness ==
    /\ last.op = "refresh"
    /\ session = 2
    /\ isPolling
    /\ startTime = 2 /\ now = 2
    /\ EventNames(emitted) = <<"polling-start">>
    /\ \E f \in inflight : f.sess = 2 /\ f.job = taskId

\* C13: once the component is unmounted no re-poll timer is pending, and
\* none is scheduled later, whatever responses still arrive.
C13_NoTimerAfterUnmount == ~mounted => timers = {}

\* ===================================================================
\* Segment editor (RAGResultEditor, src/unnamed/part_000, script lines
\* 149-389) inside the application (FileUpload.vue, script from line 439).
\*
\* An action is one run of a handler together with what Vue runs before the
\* next event: the application's listener of every emitted event, and the
\* props.segments watcher when the listener gave the prop a new array.
\* ===================================================================
DefaultConfidence == 90      \* 0.9, confidences are counted in hundredths

NewSegmentContent == Chars(9)

\* An element of a processRAG response.  A string field is {} when the
\* element lacks it and {text} when it has it; a number field is `undefined`
\* when the element lacks it; a missing id is NoId (the mapping only tests
\* the id with `||`).  mconf is metadata.confidence, conf is confidence.
Raw(id, content, text, mconf, conf) ==
    [id |-> id, content |-> content, text |-> text, mconf |-> mconf, conf |-> conf]

Responses ==
    { << Raw(NoId, {<<"h", "e", "l", "l", "o">>}, {}, undefined, undefined),
         Raw(NoId, {<<"w", "o", "r", "l", "d">>}, {}, undefined, undefined) >>,
      << Raw(BackendId(2), {}, {<<"t">>}, undefined, 50) >>,
      << Raw(BackendId(3), {<<"z">>}, {}, 0, 50) >> }

\* The string of a field the element has.
Str(field) == CHOOSE text \in field : TRUE

\* JavaScript truthiness of a string field and of a number field.
TruthyStr(field) == field # {} /\ Str(field) # <<>>

TruthyNum(n) == n # undefined /\ n # 0

\* Collections the application assigns to ragSegments on its own: the result
\* of its own segmentation run, or [] on reset.
AppCollections ==
    { <<>>,
      << Segment(BackendId(1), "f1", <<"x">>, 0, 90),
         Segment(BackendId(2), "f1", <<"y">>, 1, 90) >>,
      << Segment(BackendId(2), "f1", <<"y">>, 0, 90),
         Segment(BackendId(3), "f1", <<"z">>, 1, 90) >> }

\* Text typed into the textarea of the segment being edited.
TypedContents == { <<>>, <<"u">> }

\* What an in-place change by the application writes into its first segment.
AppMark == <<"m">>

Ids(segs) == {segs[i].id : i \in DOMAIN segs}

\* Ids a handler can be called with: those the backend sends and those the
\* editor forms.
IdUniverse ==
    {BackendId(k) : k \in 1..4} \cup {SegmentId(t) : t \in 1..MaxClock}


EdEvent(name, payload) == [e |-> name, payload |-> payload]

EdOp(name, id) ==
    [op |-> name, id |-> id, sel |-> {}, content |-> <<>>, response |-> <<>>]

EdCur ==
    [editedSegments |-> editedSegments, editingSegmentId |-> editingSegmentId,
     isProcessing |-> isProcessing, ragContent |-> ragContent,
     ragSegments |-> ragSegments, shared |-> shared, ragPending |-> ragPending,
     resetTimers |-> resetTimers, emitted |-> <<>>, deletedIds |-> deletedIds,
     lastHandoff |-> lastHandoff, propChanged |-> FALSE, now |-> now]

\* JSON.parse(JSON.stringify(segments)): a new array of new objects.  Every
\* field of a segment is a string or a finite number, which the round trip
\* yields unchanged.
JSONCopy(segs) ==
    [i \in DOMAIN segs |->
        Segment(segs[i].id, segs[i].fileId, segs[i].content,
                segs[i].chunkIndex, segs[i].confidence)]

\* A watcher that adds the copy to the working collection instead of
\* replacing it.
watchSegments_appends(e) ==
    [e EXCEPT !.editedSegments = @ \o JSONCopy(e.ragSegments), !.shared = FALSE]

\* A watcher that takes over the application's array without copying it.
watchSegments_noCopy(e) ==
    [e EXCEPT !.editedSegments = e.ragSegments, !.shared = TRUE]

\* watch(() => props.segments): the working collection becomes a deep copy.
watchSegments(e) ==
    [e EXCEPT !.editedSegments = JSONCopy(e.ragSegments), !.shared = FALSE]

\* Vue's flush after a handler: the watcher runs if the prop got a new array.
flush(e) ==
    IF e.propChanged THEN [watchSegments(e) EXCEPT !.propChanged = FALSE] ELSE e

\* handleRAGSegmentsUpdate / handleRAGSuccess: ragSegments.value = segments,
\* the very array the editor passed to emit.
appStore(e, name) ==
    IF e.shared
    THEN e
    ELSE [e EXCEPT !.ragSegments = e.editedSegments, !.shared = TRUE,
                   !.propChanged = TRUE, !.lastHandoff = name]

\* emit(name, payload) with the application's listener, if it has one.
edEmit(e, name, payload) ==
    LET e1 == [e EXCEPT !.emitted = Append(@, EdEvent(name, payload))]
    IN  IF name \in {"segments-update", "rag-success"} THEN appStore(e1, name) ELSE e1

\* A change in place of the editor's array is seen through every reference.
mutateEdited(e, segs) ==
    [e EXCEPT !.editedSegments = segs,
              !.ragSegments = IF e.shared THEN segs ELSE @]

\* Array.prototype.findIndex(s => s.id === id), 1-based; 0 when absent.
findIndex(segs, id) ==
    IF id \in Ids(segs)
    THEN CHOOSE i \in DOMAIN segs :
            /\ segs[i].id = id
            /\ \A j \in DOMAIN segs : segs[j].id = id => i <= j
    ELSE 0

\* Array.prototype.splice(index, 1)
splice(segs, index) ==
    [i \in 1..(Len(segs) - 1) |-> IF i < index THEN segs[i] ELSE segs[i + 1]]

editSegment(e, id) ==
    IF e.editingSegmentId = id
    THEN edEmit([e EXCEPT !.editingSegmentId = NoId], "segments-update", e.editedSegments)
    ELSE [e EXCEPT !.editingSegmentId = id]

\* Array.prototype.reduce((total, segment) => total + segment.content.length, total)
\* from position i on.
RECURSIVE reduce(_, _, _)
reduce(segs, i, total) ==
    IF i > Len(segs) THEN total
    ELSE reduce(segs, i + 1, total + Len(segs[i].content))

\* A total taken over the collection the application supplied.
totalCharacters_ofProp == reduce(ragSegments, 1, 0)

\* computed totalCharacters
totalCharacters == reduce(editedSegments, 1, 0)

\* v-model="segment.content" on the textarea of the k-th rendered segment.
vModel(e, k, content) ==
    mutateEdited(e, [e.editedSegments EXCEPT ![k].content = content])

updateSegmentContent(e, id, content) ==
    LET index == findIndex(e.editedSegments, id) IN
    IF index # 0
    THEN mutateEdited(e, [e.editedSegments EXCEPT ![index].content = content])
    ELSE e

\* A deleteSegment that renumbers chunkIndex after the removal.
deleteSegment_renumbers(e, id) ==
    LET index == findIndex(e.editedSegments, id) IN
    IF index # 0
    THEN LET rest == splice(e.editedSegments, index)
             e1 == mutateEdited(e, [i \in DOMAIN rest |-> [rest[i] EXCEPT !.chunkIndex = i - 1]])
             e2 == [e1 EXCEPT !.deletedIds = @ \cup {id}]
         IN  edEmit(e2, "segments-update", e2.editedSegments)
    ELSE e

deleteSegment(e, id) ==
    LET index == findIndex(e.editedSegments, id) IN
    IF index # 0
    THEN LET e1 == mutateEdited(e, splice(e.editedSegments, index))
             e2 == [e1 EXCEPT !.deletedIds = @ \cup {id}]
         IN  edEmit(e2, "segments-update", e2.editedSegments)
    ELSE e

addNewSegment(e) ==
    LET newSegment ==
            Segment(SegmentId(e.now),
                    IF e.editedSegments # <<>> THEN e.editedSegments[1].fileId ELSE "",
                    NewSegmentContent,
                    Len(e.editedSegments),
                    DefaultConfidence)
        e1 == mutateEdited(e, Append(e.editedSegments, newSegment))
    IN  [e1 EXCEPT !.editingSegmentId = newSegment.id]

\* mergeSegments logs a message and returns.
mergeSegments(e) == e

saveAllSegments(e) == edEmit(e, "segments-update", e.editedSegments)

\* A processRAGContent whose guard tests the source text only.
processRAGContent_noProcessingGuard(e) ==
    IF e.ragContent = ""
    THEN e
    ELSE LET e1 == [e EXCEPT !.isProcessing = TRUE]
             e2 == edEmit(e1, "rag-start", <<>>)
         IN  [e2 EXCEPT !.ragPending = @ + 1]

\* processRAGContent up to the await.
processRAGContent(e) ==
    IF e.ragContent = "" \/ e.isProcessing
    THEN e
    ELSE LET e1 == [e EXCEPT !.isProcessing = TRUE]
             e2 == edEmit(e1, "rag-start", <<>>)
         IN  [e2 EXCEPT !.ragPending = @ + 1]

\* One element of the response mapped into the Segment shape.
formatSegment(e, seg, index) ==
    Segment(IF seg.id # NoId THEN seg.id ELSE RagId(e.now, index),
            IF e.ragSegments # <<>> THEN e.ragSegments[1].fileId ELSE "",
            IF TruthyStr(seg.content) THEN Str(seg.content)
            ELSE IF TruthyStr(seg.text) THEN Str(seg.text)
            ELSE <<>>,
            index,
            IF TruthyNum(seg.mconf) THEN seg.mconf
            ELSE IF TruthyNum(seg.conf) THEN seg.conf
            ELSE DefaultConfidence)

\* A continuation that keeps the segments the user added and puts the mapped
\* response after them.
ragResolved_keepsAdded(e, segments) ==
    LET formattedSegments == [i \in DOMAIN segments |-> formatSegment(e, segments[i], i - 1)]
        added == SelectSeq(e.editedSegments, LAMBDA seg : seg.id[1] = "segment")
        e1 == [e EXCEPT !.editedSegments = added \o formattedSegments, !.shared = FALSE,
                        !.ragPending = @ - 1]
        e2 == edEmit(e1, "rag-success", e1.editedSegments)
        e3 == edEmit(e2, "segments-update", e1.editedSegments)
    IN  [e3 EXCEPT !.resetTimers = @ + 1]

\* A continuation that sets no timer to clear isProcessing.
ragResolved_noResetTimer(e, segments) ==
    LET formattedSegments == [i \in DOMAIN segments |-> formatSegment(e, segments[i], i - 1)]
        e1 == [e EXCEPT !.editedSegments = formattedSegments, !.shared = FALSE,
                        !.ragPending = @ - 1]
        e2 == edEmit(e1, "rag-success", formattedSegments)
    IN  edEmit(e2, "segments-update", formattedSegments)

\* processRAGContent after the await resolved with `segments`.
ragResolved(e, segments) ==
    LET formattedSegments == [i \in DOMAIN segments |-> formatSegment(e, segments[i], i - 1)]
        e1 == [e EXCEPT !.editedSegments = formattedSegments, !.shared = FALSE,
                        !.ragPending = @ - 1]
        e2 == edEmit(e1, "rag-success", formattedSegments)
        e3 == edEmit(e2, "segments-update", formattedSegments)
    IN  [e3 EXCEPT !.resetTimers = @ + 1]

\* A catch block that leaves isProcessing set.
ragRejected_keepsProcessing(e) ==
    LET e1 == [e EXCEPT !.ragPending = @ - 1]
    IN  edEmit(e1, "rag-error", <<>>)

\* The catch block of processRAGContent: the await rejected, or the response
\* was not an array and `segments.map` threw before anything was assigned.
ragRejected(e) ==
    LET e1 == [e EXCEPT !.ragPending = @ - 1]
        e2 == edEmit(e1, "rag-error", <<>>)
    IN  [e2 EXCEPT !.isProcessing = FALSE]

\* The callback of the timer set after a successful run.
resetProcessing(e) ==
    [e EXCEPT !.isProcessing = FALSE, !.resetTimers = @ - 1]

\* The application assigns a new array of its own to ragSegments.
appAssign(e, segs) ==
    [e EXCEPT !.ragSegments = segs, !.shared = FALSE, !.propChanged = TRUE,
              !.lastHandoff = "prop"]

\* The application changes its array in place.
appMutate(e) ==
    LET segs == [e.ragSegments EXCEPT ![1].content = AppMark] IN
    [e EXCEPT !.ragSegments = segs,
              !.editedSegments = IF e.shared THEN segs ELSE @]

\* ------------------------------------------------------------------ commit
EdCommit(r0, l) ==
    LET r == flush(r0)
        \* a request that settles and a timer that fires are no one's choice
        settles == l.op \in {"rag-response", "rag-reject", "reset-timer"}
    IN
    /\ settles \/ edSteps < MaxEdSteps
    /\ edSteps' = IF settles THEN edSteps ELSE edSteps + 1
    /\ editedWhilePending' =
          IF l.op \in {"update", "delete", "append"} /\ ragPending > 0 THEN TRUE
          ELSE IF l.op = "process" THEN FALSE
          ELSE editedWhilePending
    /\ editedSegments' = r.editedSegments
    /\ editingSegmentId' = r.editingSegmentId
    /\ isProcessing' = r.isProcessing
    /\ ragContent' = r.ragContent
    /\ ragSegments' = r.ragSegments
    /\ shared' = r.shared
    /\ ragPending' = r.ragPending
    /\ resetTimers' = r.resetTimers
    /\ edEmitted' = r.emitted
    /\ deletedIds' = r.deletedIds
    /\ lastHandoff' = r.lastHandoff
    /\ edPrev' = editedSegments
    /\ edLast' = l
    /\ UNCHANGED pollerVars
    /\ UNCHANGED upVars

\* The poller left aside: as set up with no job id.
PollerIdle ==
    LET r == setup(NoJob, TRUE) IN
    /\ taskId = r.taskId
    /\ autoPoll = r.autoPoll
    /\ mounted = r.mounted
    /\ statusInfo = r.statusInfo
    /\ errorMessage = r.errorMessage
    /\ isPolling = r.isPolling
    /\ pollTimer = r.pollTimer
    /\ startTime = r.startTime
    /\ timers = r.timers
    /\ inflight = r.inflight
    /\ nTimer = r.nTimer
    /\ nFetch = r.nFetch
    /\ nChanges = 0
    /\ emitted = r.emitted
    /\ session = r.session
    /\ everHalted = r.everHalted
    /\ begun = r.begun
    /\ nCompleted = r.nCompleted
    /\ nFailed = r.nFailed
    /\ last = Op("setup", NoJob, 0, "")

\* The editor after setup: the immediate run of the props.segments watcher
\* copied the collection the application supplied.
EdInit ==
    /\ PollerIdle
    /\ UploadIdle
    /\ now = 1
    /\ \E segs \in AppCollections, text \in {"", "text"} :
        /\ ragSegments = segs
        /\ editedSegments = JSONCopy(segs)
        /\ ragContent = text
    /\ editingSegmentId = NoId
    /\ isProcessing = FALSE
    /\ shared = FALSE
    /\ ragPending = 0
    /\ resetTimers = 0
    /\ edEmitted = <<>>
    /\ edPrev = <<>>
    /\ edLast = EdOp("setup", NoId)
    /\ deletedIds = {}
    /\ edSteps = 0
    /\ editedWhilePending = FALSE
    /\ lastHandoff = "prop"

\* ----------------------------------------------------------------- actions
\* The list of segments and the action buttons are rendered only while
\* props.segments is not empty.
ListShown == ragSegments # <<>>

\* The edit / done button of a segment.
ClickEdit(id) ==
    /\ ListShown
    /\ id \in Ids(editedSegments)
    /\ EdCommit(editSegment(EdCur, id), EdOp("edit", id))
    /\ UNCHANGED now

\* Typing into the textarea of the k-th segment, which exists only while
\* that segment's id is editingSegmentId.  The input event runs the v-model
\* listener of that textarea and then the @input handler.
TypeContent(k, content) ==
    /\ ListShown
    /\ k \in DOMAIN editedSegments
    /\ editedSegments[k].id = editingSegmentId
    /\ EdCommit(updateSegmentContent(vModel(EdCur, k, content), editingSegmentId, content),
                [EdOp("update", editingSegmentId) EXCEPT !.content = content])
    /\ UNCHANGED now

\* The delete button of a segment.
ClickDelete(id) ==
    /\ ListShown
    /\ id \in Ids(editedSegments)
    /\ EdCommit(deleteSegment(EdCur, id), EdOp("delete", id))
    /\ UNCHANGED now

\* The add button.
ClickAdd ==
    /\ ListShown
    /\ Len(editedSegments) < MaxSegs
    /\ EdCommit(addNewSegment(EdCur), EdOp("append", SegmentId(now)))
    /\ UNCHANGED now

\* A merge of the segments `ids` is asked for.  The component keeps the
\* selection in selectedSegments, which nothing ever writes, so the request
\* carries the selection itself.
Merge(ids) ==
    /\ ListShown
    /\ ids \subseteq Ids(editedSegments)
    /\ Cardinality(ids) >= 2
    /\ EdCommit(mergeSegments(EdCur), [EdOp("merge", NoId) EXCEPT !.sel = ids])
    /\ UNCHANGED now

\* The save button.
ClickSave ==
    /\ ListShown
    /\ EdCommit(saveAllSegments(EdCur), EdOp("save", NoId))
    /\ UNCHANGED now

\* The process button (disabled while processing or without source text).
ClickProcess ==
    /\ ragContent # "" /\ ~isProcessing
    /\ EdCommit(processRAGContent(EdCur), EdOp("process", NoId))
    /\ UNCHANGED now

\* A processRAG request resolves.
RagRespond(segments) ==
    /\ ragPending > 0
    /\ EdCommit(ragResolved(EdCur, segments),
                [EdOp("rag-response", NoId) EXCEPT !.response = segments])
    /\ UNCHANGED now

\* A processRAG request fails.
RagFail ==
    /\ ragPending > 0
    /\ EdCommit(ragRejected(EdCur), EdOp("rag-reject", NoId))
    /\ UNCHANGED now

\* The timer set after a successful run fires.
ResetTimerFire ==
    /\ resetTimers > 0
    /\ EdCommit(resetProcessing(EdCur), EdOp("reset-timer", NoId))
    /\ UNCHANGED now

\* The application supplies a new collection.
AppAssign(segs) ==
    /\ EdCommit(appAssign(EdCur, segs), EdOp("replaceAll", NoId))
    /\ UNCHANGED now

\* The application changes its own array in place.
AppMutate ==
    /\ ragSegments # <<>>
    /\ ragSegments[1].content # AppMark
    /\ EdCommit(appMutate(EdCur), EdOp("app-mutate", NoId))
    /\ UNCHANGED now

\* The application's source text changes.
SetRagContent(text) ==
    /\ text # ragContent
    /\ EdCommit([EdCur EXCEPT !.ragContent = text], EdOp("rag-content", NoId))
    /\ UNCHANGED now

\* Date.now() advances.
EdTick ==
    /\ now < MaxClock
    /\ now' = now + 1
    /\ EdCommit(EdCur, EdOp("tick", NoId))

EdNext ==
    \/ \E id \in Ids(editedSegments) : ClickEdit(id)
    \/ \E k \in DOMAIN editedSegments, content \in TypedContents : TypeContent(k, content)
    \/ \E id \in Ids(editedSegments) : ClickDelete(id)
    \/ ClickAdd
    \/ \E ids \in SUBSET Ids(editedSegments) : Merge(ids)
    \/ ClickSave
    \/ ClickProcess
    \/ \E segments \in Responses : RagRespond(segments)
    \/ RagFail
    \/ ResetTimerFire
    \/ \E segs \in AppCollections : AppAssign(segs)
    \/ AppMutate
    \/ \E text \in {"", "text"} : SetRagContent(text)
    \/ EdTick

SpecEditor == EdInit /\ [][EdNext]_vars

\* The events that bear on a segmentation run: its start, its end, the
\* source text, and edits made in between.
EdRunNext ==
    \/ ClickProcess
    \/ \E segments \in Responses : RagRespond(segments)
    \/ RagFail
    \/ ResetTimerFire
    \/ \E text \in {"", "text"} : SetRagContent(text)
    \/ \E id \in Ids(editedSegments) : ClickDelete(id)
    \/ ClickSave

\* The editor with a backend that answers or fails every request and a
\* browser that fires every timer.
SpecEditorLive ==
    /\ EdInit
    /\ [][EdRunNext]_vars
    /\ WF_vars((\E segments \in Responses : RagRespond(segments)) \/ RagFail)
    /\ WF_vars(ResetTimerFire)

\* ----------------------------------------------------------- editor claims
Distinct(segs) ==
    \A i, j \in DOMAIN segs : i # j => segs[i].id # segs[j].id

\* The contents of the segments of segs from position i on whose id is in
\* ids, concatenated in collection order.
RECURSIVE SelectedContent(_, _, _)
SelectedContent(segs, ids, i) ==
    IF i > Len(segs) THEN <<>>
    ELSE (IF segs[i].id \in ids THEN segs[i].content ELSE <<>>)
         \o SelectedContent(segs, ids, i + 1)

FirstSelected(segs, ids) ==
    CHOOSE i \in DOMAIN segs :
        segs[i].id \in ids /\ \A j \in DOMAIN segs : segs[j].id \in ids => i <= j

\* The collection mergeSelected(ids) is to leave behind.
RECURSIVE MergedFrom(_, _, _)
MergedFrom(segs, ids, i) ==
    IF i > Len(segs) THEN <<>>
    ELSE IF segs[i].id \notin ids THEN <<segs[i]>> \o MergedFrom(segs, ids, i + 1)
    ELSE IF i = FirstSelected(segs, ids)
         THEN <<[segs[i] EXCEPT !.content = SelectedContent(segs, ids, 1)]>>
              \o MergedFrom(segs, ids, i + 1)
    ELSE MergedFrom(segs, ids, i + 1)

SnapshotsIn(evs) == {i \in DOMAIN evs : evs[i].e = "segments-update"}

\* C14: a merge of at least two selected segments writes the concatenation
\* of their contents, in collection order, into the first of them, removes
\* the others and shrinks the collection by the number selected minus one.
C14_MergeConcatenates ==
    [][edLast'.op = "merge"
         => (/\ editedSegments' = MergedFrom(editedSegments, edLast'.sel, 1)
             /\ Len(editedSegments') = Len(editedSegments) - (Cardinality(edLast'.sel) - 1))]_vars

\* C15: segment ids are pairwise distinct in every reachable state, and an
\* id synthesized by append or by the segmentation mapping is never one that
\* was deleted before.
C15_IdsUniqueNeverReused ==
    /\ [](Distinct(editedSegments))
    /\ [][/\ edLast'.op = "append" => edLast'.id \notin deletedIds
          /\ edLast'.op = "rag-response"
                => \A i \in DOMAIN editedSegments' :
                      editedSegments'[i].id[1] = "rag"
                          => editedSegments'[i].id \notin deletedIds]_vars

\* C16: every structural change (remove, append, merge, accepted
\* segmentation response) emits exactly one segments-update event, whose
\* payload is the collection after the change.
C16_StructuralChangeEmitsSnapshot ==
    [][edLast'.op \in {"delete", "append", "merge", "rag-response"}
         => (/\ Cardinality(SnapshotsIn(edEmitted')) = 1
             /\ \A i \in SnapshotsIn(edEmitted') :
                    edEmitted'[i].payload = editedSegments')]_vars

\* C17: after the application supplied the collection S, the working
\* collection equals S in order, content and length, and holds no id of the
\* previous working collection that is not in S.
C17_ReplaceAllEqualsInput ==
    [][edLast'.op = "replaceAll"
         => (/\ editedSegments' = ragSegments'
             /\ Len(editedSegments') = Len(ragSegments')
             /\ Ids(editedSegments') \cap Ids(editedSegments) \subseteq Ids(ragSegments'))]_vars

\* C17 witness: a working collection holding a segment the user appended was
\* replaced by a supplied collection that shares one id with it and lacks
\* the others.
C17_Witness ==
    /\ edLast.op = "replaceAll"
    /\ editedSegments = ragSegments
    /\ editedSegments # <<>>
    /\ \E id \in Ids(edPrev) : id[1] = "segment"
    /\ Ids(edPrev) \cap Ids(editedSegments) # {}
    /\ ~(Ids(edPrev) \subseteq Ids(editedSegments))

\* C18: the working collection is never the application's array itself, and
\* a change the application makes to its array in place leaves the working
\* collection as it was, whichever way the application got its array.
C18_WorkingCopyIsOwned ==
    /\ [](~shared)
    /\ [][edLast'.op = "app-mutate" => editedSegments' = editedSegments]_vars

\* C18 witness: the application holds the array a segments-update event
\* handed to it and has changed it in place; the working collection differs.
C18_Witness ==
    /\ edLast.op = "app-mutate"
    /\ lastHandoff = "segments-update"
    /\ ragSegments[1].content = AppMark
    /\ editedSegments # <<>>
    /\ editedSegments[1].content # AppMark
    /\ editedSegments = edPrev

\* C19: after a new collection was supplied by the application, or a
\* segmentation response was accepted, no segment is in edit mode.
C19_ReplaceAllClearsEditMode ==
    [][edLast'.op \in {"replaceAll", "rag-response"}
         => editingSegmentId' = NoId]_vars

\* C20: append adds exactly one segment at the end, with an id no existing
\* segment has and chunkIndex equal to the length before, puts that segment
\* and only it in edit mode, and leaves the existing segments unchanged.
C20_AppendAddsOneFreshSegment ==
    [][edLast'.op = "append"
         => (/\ Len(editedSegments') = Len(editedSegments) + 1
             /\ SubSeq(editedSegments', 1, Len(editedSegments)) = editedSegments
             /\ editedSegments'[Len(editedSegments')].id \notin Ids(editedSegments)
             /\ editedSegments'[Len(editedSegments')].chunkIndex = Len(editedSegments)
             /\ editingSegmentId' = editedSegments'[Len(editedSegments')].id
             /\ Cardinality({i \in DOMAIN editedSegments' :
                                editedSegments'[i].id = editingSegmentId'}) = 1)]_vars

\* C21: remove(id) with a matching id deletes exactly one segment, which has
\* that id, and leaves the remaining segments in the same relative order with
\* id, content and chunkIndex unchanged; with no matching id it changes
\* nothing and emits nothing.
C21_RemoveKeepsTheRest ==
    /\ [](\A id \in IdUniverse \ Ids(editedSegments) : deleteSegment(EdCur, id) = EdCur)
    /\ [][edLast'.op = "delete"
            => (/\ Len(editedSegments') = Len(editedSegments) - 1
                /\ \E i \in DOMAIN editedSegments :
                      /\ editedSegments[i].id = edLast'.id
                      /\ \A j \in DOMAIN editedSegments' :
                            editedSegments'[j] =
                                IF j < i THEN editedSegments[j] ELSE editedSegments[j + 1])]_vars

\* C21 witness: the first of several segments was removed and the segment
\* now first still carries the chunkIndex it had.
C21_Witness ==
    /\ edLast.op = "delete"
    /\ Len(edPrev) >= 2
    /\ edPrev[1].id = edLast.id
    /\ editedSegments # <<>>
    /\ editedSegments[1] = edPrev[2]
    /\ editedSegments[1].chunkIndex = 1

\* C22: update(id, content) sets the content of exactly the segment with
\* that id and leaves every other segment, the order and the length
\* unchanged; with no matching id the collection is unchanged.
C22_UpdateTouchesOneSegment ==
    /\ [](\A id \in IdUniverse \ Ids(editedSegments), content \in TypedContents :
              updateSegmentContent(EdCur, id, content) = EdCur)
    /\ [][edLast'.op = "update"
            => \E i \in DOMAIN editedSegments :
                  /\ editedSegments[i].id = edLast'.id
                  /\ editedSegments' =
                        [editedSegments EXCEPT ![i].content = edLast'.content]]_vars

\* Every character of every segment, as (segment position, character position).
CharPositions(segs) ==
    UNION {{<<i, j>> : j \in DOMAIN segs[i].content} : i \in DOMAIN segs}

\* C23: after every operation that changes the working collection,
\* totalCharacters equals the sum of content.length over the segments then in
\* the working collection.
C23_TotalIsSumOfLengths ==
    [][edLast'.op \in {"replaceAll", "update", "delete", "append", "merge", "rag-response"}
         => totalCharacters' = Cardinality(CharPositions(editedSegments'))]_vars

\* C23 witness: a segment was appended that the application has not been
\* told of, and the total grew by the length of its content.
C23_Witness ==
    /\ edLast.op = "append"
    /\ edPrev # <<>>
    /\ editedSegments # ragSegments
    /\ totalCharacters = Cardinality(CharPositions(edPrev)) + Len(NewSegmentContent)

\* C24: processRAGContent called while a run is in progress, or with empty
\* source text, is a no-op: no rag-start event, no request, no change to the
\* collection or to isProcessing.
C24_RejectedRequestIsNoOp ==
    (ragContent = "" \/ isProcessing \/ ragPending > 0)
        => processRAGContent(EdCur) = EdCur

\* C24 witness: a request is outstanding, the source text is not empty, and
\* a further call returns the state as it is.
C24_Witness ==
    /\ ragPending > 0
    /\ isProcessing
    /\ ragContent # ""
    /\ edLast.op = "process"
    /\ processRAGContent(EdCur).ragPending = 1
    /\ processRAGContent(EdCur).emitted = <<>>

\* C25: when an accepted request fails, the working collection stays as it
\* was, exactly one rag-error event and no other event is emitted, and
\* isProcessing is cleared with no request outstanding, so that the next
\* call is accepted.
C25_FailureLeavesCollection ==
    [][edLast'.op = "rag-reject"
         => (/\ editedSegments' = editedSegments
             /\ ragSegments' = ragSegments
             /\ Len(edEmitted') = 1
             /\ edEmitted'[1].e = "rag-error"
             /\ ~isProcessing'
             /\ ragPending' = 0)]_vars

\* C25 witness: a request failed over a non-empty collection; the editor is
\* idle again and holds the same collection.
C25_Witness ==
    /\ edLast.op = "rag-reject"
    /\ editedSegments # <<>>
    /\ editedSegments = edPrev
    /\ ~isProcessing
    /\ ragContent # ""
    /\ processRAGContent(EdCur).ragPending = 1

\* C26: on a successful response of n elements the working collection
\* becomes n segments in response order, the i-th with chunkIndex i (from
\* 0), content equal to the element's content or else its text, and
\* confidence equal to the element's metadata.confidence, else its
\* top-level confidence, else 0.9.
C26_ResponseMapping ==
    [][edLast'.op = "rag-response"
         => LET segments == edLast'.response IN
            /\ Len(editedSegments') = Len(segments)
            /\ \A i \in DOMAIN segments :
                  /\ editedSegments'[i].chunkIndex = i - 1
                  /\ segments[i].content # {}
                        => editedSegments'[i].content = Str(segments[i].content)
                  /\ (segments[i].content = {} /\ segments[i].text # {})
                        => editedSegments'[i].content = Str(segments[i].text)
                  /\ editedSegments'[i].confidence =
                        IF segments[i].mconf # undefined THEN segments[i].mconf
                        ELSE IF segments[i].conf # undefined THEN segments[i].conf
                        ELSE DefaultConfidence]_vars

\* ------------------------------------------------- projections of the poller
\* processingSteps: the fixed sequence of steps.
processingSteps ==
    <<"pending", "uploading", "processing_ocr", "cleaning", "processing_rag",
      "completed", "failed">>

StepIds == {processingSteps[i] : i \in DOMAIN processingSteps}

\* Names every object literal inherits from Object.prototype; a lookup of
\* one of them in a table yields the inherited function.
ObjectPrototypeKeys == {"constructor", "toString", "valueOf", "hasOwnProperty"}

\* What such a lookup yields, where a step id is expected ...
InheritedFunction == "function"

\* ... and where a number is expected: a value that is not a number.
NotANumber == -2

\* status values a response may carry: the steps, the alias, a name no table
\* has, a name only Object.prototype has, and the empty string.
ResponseStatuses == StepIds \cup {"processing", "archived", "constructor", ""}

\* progress values a response may carry (`undefined` itself stands for a
\* payload without the field).
ProgressValues == {-5, 0, 50, 100, 150}

ProgressStatus(job, st, progress) ==
    [ProcessStatus(job, st) EXCEPT !.progress = progress]

\* The display-only fields a payload may carry.
AdvisoryValues == {[message |-> "", error |-> ""], [message |-> "m", error |-> "e"]}

WithAdvisory(status, adv) ==
    [status EXCEPT !.message = adv.message, !.error = adv.error]

StatusPayloads(job) ==
    {WithAdvisory(ProcessStatus(job, st), adv) :
        st \in ResponseStatuses, adv \in AdvisoryValues}
        \cup {ProgressStatus(job, "processing_ocr", p) : p \in ProgressValues}

\* computed currentStatus: statusInfo.value?.status || 'pending'
currentStatus ==
    IF statusInfo = NullStatus \/ statusInfo.status = "" THEN "pending"
    ELSE statusInfo.status

\* statusToStep[status]: "" stands for undefined.
statusToStep(status) ==
    CASE status = "pending" -> "pending"
      [] status = "uploading" -> "uploading"
      [] status = "processing" -> "processing_ocr"
      [] status = "processing_ocr" -> "processing_ocr"
      [] status = "cleaning" -> "cleaning"
      [] status = "processing_rag" -> "processing_rag"
      [] status = "completed" -> "completed"
      [] status = "failed" -> "failed"
      [] status \in ObjectPrototypeKeys -> InheritedFunction
      [] OTHER -> ""

\* computed currentStep: statusToStep[status] || 'pending'
currentStep ==
    IF statusToStep(currentStatus) # "" THEN statusToStep(currentStatus) ELSE "pending"

\* A table in which a failed job counts as no progress.
statusProgress_failedIsZero(status) ==
    CASE status = "pending" -> 0
      [] status = "uploading" -> 20
      [] status = "processing_ocr" -> 40
      [] status = "cleaning" -> 60
      [] status = "processing_rag" -> 80
      [] status = "completed" -> 100
      [] status = "failed" -> 0
      [] status \in ObjectPrototypeKeys -> NotANumber
      [] OTHER -> undefined

\* A table with the values of cleaning and processing_rag exchanged.
statusProgress_ragBeforeCleaning(status) ==
    CASE status = "pending" -> 0
      [] status = "uploading" -> 20
      [] status = "processing_ocr" -> 40
      [] status = "cleaning" -> 80
      [] status = "processing_rag" -> 60
      [] status = "completed" -> 100
      [] status = "failed" -> 100
      [] status \in ObjectPrototypeKeys -> NotANumber
      [] OTHER -> undefined

\* statusProgress[status]
statusProgress(status) ==
    CASE status = "pending" -> 0
      [] status = "uploading" -> 20
      [] status = "processing_ocr" -> 40
      [] status = "cleaning" -> 60
      [] status = "processing_rag" -> 80
      [] status = "completed" -> 100
      [] status = "failed" -> 100
      [] status \in ObjectPrototypeKeys -> NotANumber
      [] OTHER -> undefined

\* Math.min(a, b)
Min(a, b) == IF a < b THEN a ELSE b

\* computed displayProgress
displayProgress ==
    IF statusInfo = NullStatus THEN 0
    ELSE IF statusInfo.progress # undefined THEN Min(statusInfo.progress, 100)
    ELSE IF statusProgress(currentStatus) \notin {undefined, 0}
         THEN statusProgress(currentStatus)
    ELSE 0

\* The poller as the application mounts it for one job, with auto-poll.
ProgInit ==
    LET r == setup("a", TRUE) IN
    /\ taskId = r.taskId
    /\ autoPoll = r.autoPoll
    /\ mounted = r.mounted
    /\ statusInfo = r.statusInfo
    /\ errorMessage = r.errorMessage
    /\ isPolling = r.isPolling
    /\ pollTimer = r.pollTimer
    /\ startTime = r.startTime
    /\ timers = r.timers
    /\ inflight = r.inflight
    /\ nTimer = r.nTimer
    /\ nFetch = r.nFetch
    /\ nChanges = 0
    /\ now = r.now
    /\ emitted = r.emitted
    /\ session = r.session
    /\ everHalted = r.everHalted
    /\ begun = r.begun
    /\ nCompleted = r.nCompleted
    /\ nFailed = r.nFailed
    /\ last = Op("setup", "a", 0, "")
    /\ EditorIdle
    /\ UploadIdle

\* A status request resolves with the payload `status`.
RespondWith(f, status) ==
    /\ f \in inflight
    /\ Commit(pollResolvedWith([Cur EXCEPT !.inflight = @ \ {f}], f, status),
              [Op("response", f.job, f.sess, status.status)
                  EXCEPT !.before = IF statusInfo = NullStatus THEN "" ELSE statusInfo.status])
    /\ UNCHANGED nChanges

ProgNext ==
    \/ \E f \in inflight : \E status \in StatusPayloads(f.job) : RespondWith(f, status)
    \/ \E t \in timers : TimerFire(t)

SpecProgress == ProgInit /\ [][ProgNext]_vars

\* ------------------------------------------------------- projection claims
\* The latest payload has no progress value and the status st.
Bare(st) ==
    /\ statusInfo # NullStatus
    /\ statusInfo.progress = undefined
    /\ statusInfo.status = st

\* C27: whenever the latest payload carries a progress value, the displayed
\* percentage is that value clamped to [0,100]; the displayed percentage
\* lies in [0,100] for every payload.
C27_ProgressClamped ==
    /\ (statusInfo # NullStatus /\ statusInfo.progress # undefined)
          => displayProgress = IF statusInfo.progress < 0 THEN 0
                               ELSE IF statusInfo.progress > 100 THEN 100
                               ELSE statusInfo.progress
    /\ displayProgress \in 0..100

\* C28: when the latest payload carries no progress value, the displayed
\* percentage is the table value of its status: pending 0, uploading 20,
\* processing_ocr 40, cleaning 60, processing_rag 80, completed 100,
\* failed 100.
C28_ProgressFromTable ==
    /\ Bare("pending") => displayProgress = 0
    /\ Bare("uploading") => displayProgress = 20
    /\ Bare("processing_ocr") => displayProgress = 40
    /\ Bare("cleaning") => displayProgress = 60
    /\ Bare("processing_rag") => displayProgress = 80
    /\ Bare("completed") => displayProgress = 100
    /\ Bare("failed") => displayProgress = 100

\* C28 witness: the job failed, the payload has no progress value, and 100
\* is displayed.
C28_Witness ==
    /\ last.op = "response"
    /\ Bare("failed")
    /\ ~isPolling
    /\ displayProgress = 100

\* The statuses of P3, in the order they are fed.
FedStatuses ==
    <<"pending", "uploading", "processing_ocr", "cleaning", "processing_rag",
      "completed">>

\* C29: when the statuses pending, uploading, processing_ocr, cleaning,
\* processing_rag, completed arrive in that order without progress values,
\* the displayed percentage never decreases from one response to the next
\* and is 100 after the last.
C29_FedProgressNeverDecreases ==
    [][/\ (last'.op = "response" /\ statusInfo = NullStatus /\ Bare(FedStatuses[1])')
            => displayProgress' >= displayProgress
       /\ \A i \in 1..(Len(FedStatuses) - 1) :
            (last'.op = "response" /\ Bare(FedStatuses[i]) /\ Bare(FedStatuses[i + 1])')
                => (/\ displayProgress' >= displayProgress
                    /\ (i + 1 = Len(FedStatuses)) => displayProgress' = 100)]_vars

\* C29 witness: completed arrived after processing_rag and 100 is displayed.
C29_Witness ==
    /\ last.op = "response"
    /\ last.before = "processing_rag"
    /\ Bare("completed")
    /\ displayProgress = 100

\* C30: every status maps to one step of the fixed sequence; each step maps
\* to itself, processing maps to processing_ocr, and any unknown or absent
\* status maps to pending.
C30_StatusMapsToStep ==
    /\ currentStep \in StepIds
    /\ (statusInfo # NullStatus /\ statusInfo.status \in StepIds)
          => currentStep = statusInfo.status
    /\ (statusInfo # NullStatus /\ statusInfo.status = "processing")
          => currentStep = "processing_ocr"
    /\ (statusInfo = NullStatus \/ statusInfo.status \notin StepIds \cup {"processing"})
          => currentStep = "pending"

\* ------------------------------------------------------------ step classes
\* processingSteps.findIndex(step => step.id === id): 0-based, -1 when absent.
findStepIndex(id) ==
    IF id \in StepIds
    THEN (CHOOSE i \in DOMAIN processingSteps : processingSteps[i] = id) - 1
    ELSE -1

\* An isStepCompleted without the tests for the failed status.
isStepCompleted_ignoresFailed(stepId) ==
    findStepIndex(stepId) < findStepIndex(currentStep)

isStepCompleted(stepId) ==
    IF currentStatus = "failed" THEN FALSE
    ELSE /\ findStepIndex(stepId) < findStepIndex(currentStep)
         /\ currentStatus # "failed"

\* The class `failed` of a step in the template.
stepFailed(stepId) == currentStatus = "failed" /\ stepId = currentStep

\* The step a status stands for: itself if it is a step, processing_ocr for
\* processing, pending for anything else.
StepOf(status) ==
    IF status \in StepIds THEN status
    ELSE IF status = "processing" THEN "processing_ocr"
    ELSE "pending"

\* The place of a step in the fixed ordering, from 1.
Place(stepId) == CHOOSE i \in DOMAIN processingSteps : processingSteps[i] = stepId

\* C31: for every status and every step, the step is marked completed iff
\* its place in the fixed ordering is strictly before the place of the
\* current step and the status is not failed; when the status is failed no
\* step is marked completed and exactly the current step is flagged failed.
C31_StepCompletion ==
    /\ \A stepId \in StepIds :
          isStepCompleted(stepId)
              <=> (/\ Place(stepId) < Place(StepOf(currentStatus))
                   /\ currentStatus # "failed")
    /\ currentStatus = "failed"
          => (/\ \A stepId \in StepIds : ~isStepCompleted(stepId)
              /\ {stepId \in StepIds : stepFailed(stepId)} = {StepOf(currentStatus)})
    /\ currentStatus # "failed" => \A stepId \in StepIds : ~stepFailed(stepId)

\* C31 witness: the job failed after the cleaning step; no step is marked
\* completed and the step failed is flagged.
C31_Witness ==
    /\ last.op = "response"
    /\ last.before = "cleaning"
    /\ Bare("failed")
    /\ \A stepId \in StepIds : ~isStepCompleted(stepId)
    /\ stepFailed("failed")

\* ----------------------------------------------------- further poller claims
\* C32: when a non-terminal response is applied while the session that
\* issued the fetch is still active, exactly one timer is scheduled; when
\* that session was halted while the fetch was outstanding, none is.
C32_RefetchOnlyWhileActive ==
    [][(last'.op = "response" /\ last'.status \notin {"completed", "failed"})
         => IF SessionHalted(last'.sess)
            THEN nTimer' = nTimer /\ timers' = timers
            ELSE /\ nTimer' = nTimer + 1
                 /\ timers \subseteq timers'
                 /\ Cardinality(timers' \ timers) = 1]_vars

\* What decides the poller's further course and what the application is
\* told: the polling state, the timers and requests, the names of the events
\* emitted, and the control fields of the stored status.
Control(s) ==
    [isPolling |-> s.isPolling, pollTimer |-> s.pollTimer, timers |-> s.timers,
     inflight |-> s.inflight, nTimer |-> s.nTimer, nFetch |-> s.nFetch,
     errorMessage |-> s.errorMessage, events |-> EventNames(s.emitted),
     status |-> s.statusInfo.status, progress |-> s.statusInfo.progress]

\* The state s with other display-only fields in the stored status.
Vary(s, adv) ==
    IF s.statusInfo = NullStatus THEN s
    ELSE [s EXCEPT !.statusInfo = WithAdvisory(@, adv)]

\* C33: message, error, start_time and end_time never influence control:
\* from two states that differ in those fields of the stored status only, a
\* response with the same status but other such fields, and a timer, lead to
\* the same events, timers and polling state; so do two runs whose responses
\* agree on status at every step.
C33_AdvisoryFieldsDoNotSteer ==
    \A adv1, adv2 \in AdvisoryValues :
        /\ \A f \in inflight : \A status \in StatusPayloads(f.job) :
              Control(pollResolvedWith([Cur EXCEPT !.inflight = @ \ {f}], f, status))
                = Control(pollResolvedWith(
                            Vary([Cur EXCEPT !.inflight = @ \ {f}], adv1), f,
                            WithAdvisory(status, adv2)))
        /\ \A t \in timers :
              Control(poll([Cur EXCEPT !.timers = @ \ {t}], t.sess))
                = Control(poll(Vary([Cur EXCEPT !.timers = @ \ {t}], adv1), t.sess))

\* C33 witness: a response that carried a message and an error text with a
\* non-terminal status was applied; polling goes on and a timer is pending.
C33_Witness ==
    /\ last.op = "response"
    /\ statusInfo # NullStatus
    /\ statusInfo.error # ""
    /\ statusInfo.message # ""
    /\ statusInfo.status = "cleaning"
    /\ isPolling
    /\ timers # {}
    /\ Names(emitted) = {"status-update"}

\* ----------------------------------------------------- further editor claims
\* C34: when a response arrives after the user updated, removed or appended
\* segments while the request was outstanding, the working collection
\* becomes exactly the mapped response; no segment the user appended is
\* left in it.
C34_ResponseDiscardsLocalEdits ==
    [][(edLast'.op = "rag-response" /\ editedWhilePending)
         => (/\ editedSegments' =
                  [i \in DOMAIN edLast'.response |->
                      formatSegment(EdCur, edLast'.response[i], i - 1)]
             /\ \A i \in DOMAIN editedSegments' : editedSegments'[i].id[1] # "segment")]_vars

\* C34 witness: the response arrived over a collection to which the user had
\* appended a segment while the request was outstanding, and that segment is
\* gone.
C34_Witness ==
    /\ edLast.op = "rag-response"
    /\ editedWhilePending
    /\ \E i \in DOMAIN edPrev : edPrev[i].id[1] = "segment"
    /\ Len(editedSegments) = Len(edLast.response)
    /\ \A i \in DOMAIN editedSegments : editedSegments[i].id[1] # "segment"

\* C35: once the supplied job id is empty the poller is halted and the
\* stored status is none, and it stays none for as long as the id is empty:
\* a response to a fetch issued before the id was cleared does not
\* repopulate it.
C35_EmptyIdKeepsStatusNone ==
    taskId = NoJob => (~isPolling /\ statusInfo = NullStatus)

\* C36: the failure of a fetch issued by a session that was halted meanwhile
\* neither records an error message on, nor halts, a session that was begun
\* afterwards.
C36_FailureStaysInItsSession ==
    [][(last'.op = "reject" /\ last'.sess # session /\ isPolling)
         => (isPolling' /\ errorMessage' = errorMessage)]_vars

\* C37: two statuses that map to the same current step give the same
\* displayed percentage when no progress value is present; in particular
\* processing gives the percentage of processing_ocr.
C37_SameStepSameProgress ==
    /\ [][(/\ last'.op = "response"
           /\ statusInfo # NullStatus
           /\ statusInfo.progress = undefined
           /\ statusInfo'.progress = undefined
           /\ currentStep' = currentStep)
            => displayProgress' = displayProgress]_vars
    /\ [](Bare("processing") => displayProgress = 40)

\* C38: in every reachable state editingSegmentId is empty or the id of a
\* segment of the working collection.
C38_EditMarkerNamesASegment ==
    editingSegmentId = NoId \/ editingSegmentId \in Ids(editedSegments)

\* C39: every accepted run, whether it succeeds or fails, eventually leaves
\* the editor not processing, so that a later call is accepted again.
C39_RunEventuallyEnds ==
    isProcessing ~> (~isProcessing /\ ragPending = 0)

\* C39 witness: a run succeeded, the reset timer fired, and the editor
\* accepts a call again.
C39_Witness ==
    /\ edLast.op = "reset-timer"
    /\ ~isProcessing
    /\ ragPending = 0
    /\ resetTimers = 0
    /\ ragContent # ""
    /\ processRAGContent(EdCur).ragPending = 1

\* ================================================================ upload list
\* FileUpload.vue, script from line 54: the list of chosen files and the
\* request that sends them.
MaxFiles == 3     \* files in the list
MaxUpSteps == 4   \* user and application events in one behaviour

\* Ids of list entries: generateId() (Date.now and Math.random: never the same
\* twice) or the file_id the backend sent.
NoFileId == <<"", 0>>
generateId(n) == <<"gen", n>>
ServerId(k) == <<"srv", k>>

\* The files the user can choose.
LocalFiles == {"a.pdf", "b.png"}

\* One entry of the list (types/index.ts UploadFile, as handleFiles builds it).
UploadFile(id, file) ==
    [id |-> id, name |-> file, uploadProgress |-> 0, status |-> "pending",
     originalFile |-> file]

\* What the backend answers: an array of entries, of any length, or a body
\* that is no array at all.
ArrayBody(entries) == [isArray |-> TRUE, entries |-> entries]
NotAnArray == [isArray |-> FALSE, entries |-> <<>>]
UploadedFile(k, filename) == [file_id |-> ServerId(k), filename |-> filename]
UploadedFiles == {UploadedFile(1, "a.pdf"), UploadedFile(2, "b.png")}
UploadResponses ==
    {ArrayBody(entries) :
        entries \in UNION {[1..n -> UploadedFiles] : n \in 0..MaxFiles}}
      \cup {NotAnArray}

Selections == UNION {[1..n -> LocalFiles] : n \in 0..2}

UpEvent(name, payload) == [e |-> name, payload |-> payload]

UpCur ==
    [files |-> files, isSubmittingInternal |-> isSubmittingInternal,
     autoUpload |-> autoUpload, uploads |-> uploads, nGenerated |-> nGenerated,
     emitted |-> <<>>]

\* submitFiles up to its await.
submitFiles(u) ==
    IF Len(u.files) = 0 \/ u.isSubmittingInternal THEN u
    ELSE [u EXCEPT
            !.isSubmittingInternal = TRUE,
            !.emitted = Append(@, UpEvent("submit", <<>>)),
            !.files = [i \in DOMAIN @ |->
                          [@[i] EXCEPT !.status = "uploading", !.uploadProgress = 0]],
            !.uploads = Append(@, [i \in DOMAIN u.files |-> u.files[i].originalFile])]

handleFiles(u, newFiles) ==
    LET uploadFiles == [i \in DOMAIN newFiles |->
                           UploadFile(generateId(u.nGenerated + i), newFiles[i])]
        u1 == [u EXCEPT !.files = @ \o uploadFiles,
                        !.nGenerated = @ + Len(newFiles),
                        !.emitted = Append(@, UpEvent("file-selected", newFiles))]
    IN IF u.autoUpload THEN submitFiles(u1) ELSE u1

\* find: the first entry with that id.
findFile(fs, fileId) ==
    IF \E i \in DOMAIN fs : fs[i].id = fileId
    THEN fs[CHOOSE i \in DOMAIN fs :
                /\ fs[i].id = fileId
                /\ \A j \in 1..(i - 1) : fs[j].id # fileId]
    ELSE [id |-> NoFileId, status |-> "undefined"]

removeFile(u, fileId) ==
    IF findFile(u.files, fileId).status = "uploading" THEN u
    ELSE [u EXCEPT !.files = SelectSeq(@, LAMBDA f : f.id # fileId)]

clearFiles(u) == [u EXCEPT !.files = <<>>]

\* The catch block and the finally block of submitFiles.
uploadRejected(u) ==
    [u EXCEPT !.files = [i \in DOMAIN @ |-> [@[i] EXCEPT !.status = "error"]],
              !.emitted = Append(@, UpEvent("upload-error", <<>>)),
              !.isSubmittingInternal = FALSE]

\* submitFiles after its await: forEach over the answer, by index into the
\* list as it is now; a body without forEach throws into the catch block.
uploadResolved(u, body) ==
    LET uploadedFilesData == body.entries IN
    IF ~body.isArray THEN uploadRejected(u)
    ELSE [u EXCEPT
            !.files = [i \in DOMAIN @ |->
                IF i \in DOMAIN uploadedFilesData
                THEN [@[i] EXCEPT !.id = uploadedFilesData[i].file_id,
                                  !.name = uploadedFilesData[i].filename,
                                  !.status = "success",
                                  !.uploadProgress = 100]
                ELSE @[i]],
            !.emitted = Append(@, UpEvent("upload-success", uploadedFilesData)),
            !.isSubmittingInternal = FALSE]

RemoveAt(seq, k) == [i \in 1..(Len(seq) - 1) |-> IF i < k THEN seq[i] ELSE seq[i + 1]]

UpCommit(u, l) ==
    LET settles == l.op \in {"upload-response", "upload-reject"} IN
    /\ settles \/ upSteps < MaxUpSteps
    /\ Len(u.files) <= MaxFiles
    /\ upSteps' = IF settles THEN upSteps ELSE upSteps + 1
    /\ files' = u.files
    /\ isSubmittingInternal' = u.isSubmittingInternal
    /\ autoUpload' = u.autoUpload
    /\ uploads' = u.uploads
    /\ nGenerated' = u.nGenerated
    /\ upEmitted' = u.emitted
    /\ upLast' = [l EXCEPT !.before = files]
    /\ UNCHANGED pollerVars
    /\ UNCHANGED edVars
    /\ UNCHANGED now

\* The component as the application mounts it; autoUpload is a prop.
UpInit ==
    /\ PollerIdle
    /\ EditorIdle
    /\ now = 1
    /\ files = <<>>
    /\ isSubmittingInternal = FALSE
    /\ autoUpload \in BOOLEAN
    /\ uploads = <<>>
    /\ nGenerated = 0
    /\ upEmitted = <<>>
    /\ upLast = UpOp("setup")
    /\ upSteps = 0

\* The user picks or drops files.
SelectFiles(newFiles) ==
    UpCommit(handleFiles(UpCur, newFiles), UpOp("select"))

\* The remove button of a list entry (disabled while the entry is uploading).
ClickRemove(k) ==
    /\ k \in DOMAIN files
    /\ files[k].status # "uploading"
    /\ UpCommit(removeFile(UpCur, files[k].id), [UpOp("remove") EXCEPT !.id = files[k].id])

\* The submit button, or the application calling the exposed submitFiles.
Submit ==
    UpCommit(submitFiles(UpCur), UpOp("submit"))

\* The application calls the exposed clearFiles (resetProcessingState).
ClearFiles ==
    UpCommit(clearFiles(UpCur), UpOp("clear"))

UploadRespond(k, body) ==
    /\ k \in DOMAIN uploads
    /\ UpCommit(uploadResolved([UpCur EXCEPT !.uploads = RemoveAt(@, k)], body),
                UpOp("upload-response"))

UploadFail(k) ==
    /\ k \in DOMAIN uploads
    /\ UpCommit(uploadRejected([UpCur EXCEPT !.uploads = RemoveAt(@, k)]),
                UpOp("upload-reject"))

UpNext ==
    \/ \E newFiles \in Selections : SelectFiles(newFiles)
    \/ \E k \in 1..MaxFiles : ClickRemove(k)
    \/ Submit
    \/ ClearFiles
    \/ \E k \in DOMAIN uploads, body \in UploadResponses : UploadRespond(k, body)
    \/ \E k \in DOMAIN uploads : UploadFail(k)

SpecUpload == UpInit /\ [][UpNext]_vars

Statuses(fs) == {fs[i].status : i \in DOMAIN fs}

\* C40 (first part): once submitFiles has settled, with the upload succeeded
\* or failed and whatever number of entries the backend returned, no file of
\* the list is left in status `uploading`.
C40_SettledLeavesNoneUploading ==
    [][upLast'.op \in {"upload-response", "upload-reject"}
          => "uploading" \notin Statuses(files')]_vars

\* C40 (second part): while an upload is outstanding a second submitFiles
\* changes nothing and sends nothing.
C40_SecondSubmitIsNoOp ==
    uploads # <<>> => submitFiles(UpCur) = UpCur

\* C40 (third part): removeFile leaves the list as it is when asked to remove
\* a file in status `uploading`.
C40_UploadingNotRemovable ==
    \A i \in DOMAIN files :
        files[i].status = "uploading" => removeFile(UpCur, files[i].id).files = files

\* C40: after submitFiles settles no file is left in status `uploading`; while
\* an upload is outstanding a second submitFiles is a no-op and a file in
\* status `uploading` cannot be removed.
C40_UploadSettlesEveryFile ==
    /\ C40_SettledLeavesNoneUploading
    /\ [](C40_SecondSubmitIsNoOp /\ C40_UploadingNotRemovable)

====
